---------------------------- MODULE Spec2Model ----------------------------
(***************************************************************************)
(* CraftVista backend (src/backend/server.py): the AI-assisted upload,     *)
(* story and translate handlers, the content-generation response parser    *)
(* and the product store.                                                  *)
(*                                                                         *)
(* Python values are tagged records so that None, strings, numbers, dicts  *)
(* and lists can be told apart: [none], [str], [num], [dict], [list].      *)
(* A completion is a sequence of characters.  The backtick is written BT.  *)
(* A JSON member ("key": value) is one character of the alphabet, named    *)
(* key=value; MemberOf gives its key and value.  Prices are whole rupees.  *)
(***************************************************************************)
EXTENDS Integers, Sequences, FiniteSets, TLC

VARIABLES db, reqs, nuploads, gen

vars == <<db, reqs, nuploads, gen>>

---------------------------------------------------------------------------
(* Python values *)

PyNone == [none |-> TRUE]

PyStr(s) == [str |-> s]

PyNum(n) == [num |-> n]

PyDict(d) == [dict |-> d]

PyList(l) == [list |-> l]

PyBool(b) == [bool |-> b]

EmptyMap == [k \in {} |-> PyNone]

IsNone(v) == DOMAIN v = {"none"}

IsStr(v) == DOMAIN v = {"str"}

IsNum(v) == DOMAIN v = {"num"}

IsDict(v) == DOMAIN v = {"dict"}

\* Python truthiness, as `or` and `not` use it.
Truthy(v) ==
    IF IsNone(v) THEN FALSE
    ELSE IF IsStr(v) THEN v.str # ""
    ELSE IF IsNum(v) THEN v.num # 0
    ELSE IF IsDict(v) THEN DOMAIN v.dict # {}
    ELSE IF DOMAIN v = {"list"} THEN Len(v.list) > 0
    ELSE v.bool

\* a or b
PyOr(a, b) == IF Truthy(a) THEN a ELSE b

\* d.get(key, default) on a dict d
DictGet(d, key, default) == IF key \in DOMAIN d.dict THEN d.dict[key] ELSE default

---------------------------------------------------------------------------
(* Characters and strings *)

BT == "BT"

Fence == <<BT, BT, BT>>

JsonTag == <<"j", "s", "o", "n">>

NullText == <<"n", "u", "l", "l">>

Whitespace == {" ", "\n"}

\* str.startswith
startswith(s, prefix) ==
    /\ Len(s) >= Len(prefix)
    /\ SubSeq(s, 1, Len(prefix)) = prefix

RECURSIVE lstrip(_)
lstrip(s) == IF s # <<>> /\ Head(s) \in Whitespace THEN lstrip(Tail(s)) ELSE s

RECURSIVE rstrip(_)
rstrip(s) ==
    IF s # <<>> /\ s[Len(s)] \in Whitespace THEN rstrip(SubSeq(s, 1, Len(s) - 1)) ELSE s

\* str.strip
strip(s) == rstrip(lstrip(s))

\* s[a:-b]
Slice(s, a, b) == SubSeq(s, a + 1, Len(s) - b)

FenceJsonLen == 7

FenceLen == 3

\* A mutant of StripFence: the tagged fence is cut like the bare one.
StripFenceSameCut(response_text) ==
    IF startswith(response_text, Fence)
    THEN Slice(response_text, FenceLen, FenceLen)
    ELSE response_text

\* if response_text.startswith('```json'): [7:-3] elif startswith('```'): [3:-3]
StripFence(response_text) ==
    IF startswith(response_text, Fence \o JsonTag)
    THEN Slice(response_text, FenceJsonLen, FenceLen)
    ELSE IF startswith(response_text, Fence)
    THEN Slice(response_text, FenceLen, FenceLen)
    ELSE response_text

---------------------------------------------------------------------------
(* json.loads over the alphabet of this model *)

Members ==
    {"title=s", "title=null", "description=s", "price=900", "price=0",
     "price=-40", "price=null", "context=s", "keywords=l"}

AiTitle == "Terracotta Pot with Traditional Motifs"

AiDescription == "A hand-thrown terracotta pot."

AiContext == "Terracotta pottery is an ancient craft."

MemberOf(m) ==
    CASE m = "title=s" -> <<"title", PyStr(AiTitle)>>
      [] m = "title=null" -> <<"title", PyNone>>
      [] m = "description=s" -> <<"description", PyStr(AiDescription)>>
      [] m = "price=900" -> <<"price_suggestion", PyNum(900)>>
      [] m = "price=0" -> <<"price_suggestion", PyNum(0)>>
      [] m = "price=-40" -> <<"price_suggestion", PyNum(-40)>>
      [] m = "price=null" -> <<"price_suggestion", PyNone>>
      [] m = "context=s" -> <<"cultural_context", PyStr(AiContext)>>
      [] m = "keywords=l" -> <<"keywords", PyList(<<PyStr("terracotta")>>)>>

RECURSIVE DropWhitespace(_)
DropWhitespace(s) ==
    IF s = <<>> THEN <<>>
    ELSE IF Head(s) \in Whitespace THEN DropWhitespace(Tail(s))
    ELSE <<Head(s)>> \o DropWhitespace(Tail(s))

\* member (, member)*
RECURSIVE IsMemberList(_)
IsMemberList(s) ==
    /\ s # <<>>
    /\ Head(s) \in Members
    /\ \/ Len(s) = 1
       \/ /\ Len(s) >= 3
          /\ s[2] = ","
          /\ IsMemberList(SubSeq(s, 3, Len(s)))

\* The dict of a member list; a later duplicate key replaces an earlier one.
RECURSIVE MemberDict(_)
MemberDict(s) ==
    IF s = <<>> THEN EmptyMap
    ELSE IF s[Len(s)] = "," THEN MemberDict(SubSeq(s, 1, Len(s) - 1))
    ELSE LET kv == MemberOf(s[Len(s)])
             rest == MemberDict(SubSeq(s, 1, Len(s) - 1))
         IN  [k \in DOMAIN rest \cup {kv[1]} |-> IF k = kv[1] THEN kv[2] ELSE rest[k]]

JsonError == [ok |-> FALSE]

JsonOk(v) == [ok |-> TRUE, value |-> v]

\* json.loads: whitespace is allowed around the document and between tokens;
\* anything that is not one JSON document raises.
json_loads(text) ==
    LET t == DropWhitespace(text) IN
    IF t = NullText THEN JsonOk(PyNone)
    ELSE IF t = <<"[", "]">> THEN JsonOk(PyList(<<>>))
    ELSE IF Len(t) >= 2 /\ t[1] = "{" /\ t[Len(t)] = "}"
    THEN LET inner == SubSeq(t, 2, Len(t) - 1) IN
         IF inner = <<>> THEN JsonOk(PyDict(EmptyMap))
         ELSE IF IsMemberList(inner) THEN JsonOk(PyDict(MemberDict(inner)))
         ELSE JsonError
    ELSE JsonError

---------------------------------------------------------------------------
(* AI completion client: one call either returns a completion or raises *)

Raised == [kind |-> "raise"]

Answer(text) == [kind |-> "text", text |-> text]

---------------------------------------------------------------------------
(* AIContentGenerator.generate_product_content *)

FallbackPrice == 500

\* A mutant of FallbackContent: the description is dropped.
FallbackContentNoDescription(request) ==
    PyDict([title |-> PyStr("Handcrafted " \o request.category),
            description |-> PyStr(""),
            price_suggestion |-> PyNum(FallbackPrice),
            cultural_context |-> PyStr("A beautiful traditional Indian craft."),
            keywords |-> PyList(<<PyStr(request.category), PyStr("handmade"),
                                  PyStr("traditional")>>)])

\* the except branch's return value
FallbackContent(request) ==
    PyDict([title |-> PyStr("Handcrafted " \o request.category),
            description |-> PyStr(request.description),
            price_suggestion |-> PyNum(FallbackPrice),
            cultural_context |-> PyStr("A beautiful traditional Indian craft."),
            keywords |-> PyList(<<PyStr(request.category), PyStr("handmade"),
                                  PyStr("traditional")>>)])

generate_product_content(request, outcome) ==
    IF outcome.kind = "raise" THEN FallbackContent(request)
    ELSE LET parsed == json_loads(StripFence(strip(outcome.text))) IN
         IF parsed.ok THEN parsed.value ELSE FallbackContent(request)

---------------------------------------------------------------------------
(* Inputs of the content-generation harness *)

Categories == {"pottery", "textiles"}

DefaultDescription == "Beautiful handcrafted item"

UserDescription == "Beautiful handmade terracotta pot with traditional designs"

ContentRequests ==
    [description : {DefaultDescription, UserDescription}, category : Categories]

FullObjectText ==
    <<"{", "title=s", ",", "description=s", ",", "price=900", ",",
      "context=s", ",", "keywords=l", "}">>

\* JSON object texts
ObjectTexts ==
    {FullObjectText, <<"{", "}">>, <<"{", " ", "title=s", " ", "}">>,
     <<"{", "title=null", ",", "price=0", "}">>}

\* JSON texts that are no object, and texts that are no JSON
OtherTexts == {NullText, <<"[", "]">>, <<"x">>, <<>>, <<"{", "title=s">>}

Tags == {<<>>, JsonTag, <<"j", "s">>, JsonTag \o <<"c">>}

Parts ==
    [lead : {<<>>, <<" ">>}, open : {<<>>, Fence}, tag : Tags,
     sep : {<<>>, <<"\n">>}, body : ObjectTexts \cup OtherTexts,
     close : {<<>>, Fence}, trail : {<<>>, <<"\n">>}]

\* The completion made of the parts p.
Completion(p) ==
    p.lead \o p.open \o p.tag \o p.sep \o p.body \o p.sep \o p.close \o p.trail

NoParts == [lead |-> <<>>, open |-> <<>>, tag |-> <<>>, sep |-> <<>>,
            body |-> <<>>, close |-> <<>>, trail |-> <<>>]

GenOff == [pc |-> "off"]

---------------------------------------------------------------------------
(* The products collection and its update operator *)

MaxUploads == 1

MaxInFlight == 2

Slots == 1..MaxInFlight

\* An id no product ever gets (uuid4 values are never reused or guessed).
NoSuchId == MaxUploads + 1

\* uuid4(): an id that no stored or pending product carries.
FreshId ==
    CHOOSE i \in 1..MaxUploads :
        /\ i \notin DOMAIN db
        /\ \A r \in Slots : reqs[r].pc = "insert" => reqs[r].product.dict["id"] # PyNum(i)
        /\ \A j \in 1..(i - 1) :
              \/ j \in DOMAIN db
              \/ \E r \in Slots : reqs[r].pc = "insert" /\ reqs[r].product.dict["id"] = PyNum(j)

\* The string made of the characters s.
RECURSIVE Str(_)
Str(s) == IF s = <<>> THEN "" ELSE Head(s) \o Str(Tail(s))

\* The field names of a dotted path, as the store reads it.
RECURSIVE SplitDots(_)
SplitDots(s) ==
    LET dots == {i \in 1..Len(s) : s[i] = "."} IN
    IF dots = {} THEN <<Str(s)>>
    ELSE LET i == CHOOSE k \in dots : \A m \in dots : k <= m
         IN  <<Str(SubSeq(s, 1, i - 1))>> \o SplitDots(SubSeq(s, i + 1, Len(s)))

\* $set of one path in a document: the result, or an error when a field on
\* the way holds a value that is no document, or a field name is empty.
RECURSIVE SetPath(_, _, _)
SetPath(doc, path, value) ==
    LET k == Head(path)
        with(v) == PyDict([f \in DOMAIN doc.dict \cup {k} |->
                              IF f = k THEN v ELSE doc.dict[f]])
    IN  IF k = "" THEN [ok |-> FALSE]
        ELSE IF Len(path) = 1 THEN [ok |-> TRUE, doc |-> with(value)]
        ELSE LET child == IF k \in DOMAIN doc.dict THEN doc.dict[k]
                          ELSE PyDict(EmptyMap)
             IN  IF ~IsDict(child) THEN [ok |-> FALSE]
                 ELSE LET sub == SetPath(child, Tail(path), value)
                      IN  IF sub.ok THEN [ok |-> TRUE, doc |-> with(sub.doc)]
                          ELSE sub

\* The value at a path of field names, or Missing.
Missing == [missing |-> TRUE]

RECURSIVE GetPath(_, _)
GetPath(doc, path) ==
    IF path = <<>> THEN doc
    ELSE IF IsDict(doc) /\ Head(path) \in DOMAIN doc.dict
    THEN GetPath(doc.dict[Head(path)], Tail(path))
    ELSE Missing

\* db.products.find_one({"id": product_id})
find_one(product_id) == IF product_id \in DOMAIN db THEN db[product_id] ELSE PyNone

\* The store with product id's document replaced.
Stored(id, doc) == [i \in DOMAIN db \cup {id} |-> IF i = id THEN doc ELSE db[i]]

EmptyDb == [i \in {} |-> PyNone]

---------------------------------------------------------------------------
(* upload_product *)

UserId == "user_123"

UserTitle == "Blue Pottery Vase"

UserPrice == 1500

\* AIContentRequest(description=upload_data.description or "...", category=...)
content_request(upload_data) ==
    [description |-> PyOr(upload_data.description, PyStr(DefaultDescription)).str,
     category |-> upload_data.category]

\* A mutant of MergedFields: the AI suggestion wins over the user's value.
MergedFieldsAiFirst(upload_data, ai_content) ==
    [title |-> PyOr(DictGet(ai_content, "title", PyNone), upload_data.title),
     description |-> PyOr(DictGet(ai_content, "description", PyNone),
                          upload_data.description),
     price |-> PyOr(DictGet(ai_content, "price_suggestion", PyNone), upload_data.price)]

\* title=upload_data.title or ai_content.get("title", ...), description, price
MergedFields(upload_data, ai_content) ==
    [title |-> PyOr(upload_data.title,
                    DictGet(ai_content, "title",
                            PyStr("Handcrafted " \o upload_data.category))),
     description |-> PyOr(upload_data.description,
                          DictGet(ai_content, "description", PyStr(DefaultDescription))),
     price |-> PyOr(upload_data.price,
                    DictGet(ai_content, "price_suggestion", PyNum(FallbackPrice)))]

\* A mutant of AiGenerated: a field is flagged only when the request lacks it.
AiGeneratedWhenAbsent(upload_data) ==
    PyDict([title |-> PyBool(IsNone(upload_data.title)),
            description |-> PyBool(IsNone(upload_data.description)),
            price |-> PyBool(IsNone(upload_data.price)),
            cultural_context |-> PyBool(TRUE)])

\* ai_generated={"title": not upload_data.title, ...}
AiGenerated(upload_data) ==
    PyDict([title |-> PyBool(~Truthy(upload_data.title)),
            description |-> PyBool(~Truthy(upload_data.description)),
            price |-> PyBool(~Truthy(upload_data.price)),
            cultural_context |-> PyBool(TRUE)])

Failed == [ok |-> FALSE]

\* Product(...): fails when ai_content has no get (it is no dict) or when a
\* field has the wrong type (title: str, description: str, price: float,
\* cultural_context: Optional[str]).
Product(upload_data, ai_content, id) ==
    IF ~IsDict(ai_content) THEN Failed
    ELSE LET m == MergedFields(upload_data, ai_content)
             cultural_context == DictGet(ai_content, "cultural_context", PyNone)
         IN  IF ~(/\ IsStr(m.title)
                  /\ IsStr(m.description)
                  /\ IsNum(m.price)
                  /\ (IsStr(cultural_context) \/ IsNone(cultural_context)))
             THEN Failed
             ELSE [ok |-> TRUE,
                   doc |-> PyDict([id |-> PyNum(id),
                                   artisan_id |-> PyStr(UserId),
                                   title |-> m.title,
                                   description |-> m.description,
                                   price |-> m.price,
                                   category |-> PyStr(upload_data.category),
                                   story |-> PyNone,
                                   cultural_context |-> cultural_context,
                                   translations |-> PyDict(EmptyMap),
                                   ai_generated |-> AiGenerated(upload_data)])]

Idle == [pc |-> "idle"]

ServerError == [status |-> 500]

\* The lowest idle slot takes the next request.
Free(r) ==
    /\ reqs[r].pc = "idle"
    /\ \A q \in Slots : q < r => reqs[q].pc # "idle"

\* The request arrives and awaits generate_product_content.
UploadArrive(r, upload_data) ==
    /\ Free(r)
    /\ nuploads < MaxUploads
    /\ nuploads' = nuploads + 1
    /\ reqs' = [reqs EXCEPT ![r] = [pc |-> "ai", kind |-> "upload",
                                    upload_data |-> upload_data]]
    /\ UNCHANGED <<db, gen>>

\* The AI call ends with outcome; the product is built, and insert_one awaited.
UploadAIReturn(r, outcome) ==
    /\ reqs[r].pc = "ai"
    /\ reqs[r].kind = "upload"
    /\ LET upload_data == reqs[r].upload_data
           ai_content == generate_product_content(content_request(upload_data), outcome)
           product == Product(upload_data, ai_content, FreshId)
       IN  reqs' = [reqs EXCEPT ![r] =
                IF product.ok
                THEN [pc |-> "insert", kind |-> "upload", upload_data |-> upload_data,
                      ai_content |-> ai_content, product |-> product.doc]
                ELSE [pc |-> "done", kind |-> "upload", upload_data |-> upload_data,
                      response |-> ServerError]]
    /\ UNCHANGED <<db, nuploads, gen>>

\* insert_one, then the response
UploadInsert(r) ==
    /\ reqs[r].pc = "insert"
    /\ LET product == reqs[r].product IN
       /\ db' = Stored(product.dict["id"].num, product)
       /\ reqs' = [reqs EXCEPT ![r] =
                [pc |-> "done", kind |-> "upload", upload_data |-> reqs[r].upload_data,
                 response |-> [status |-> 200, product |-> product,
                               ai_suggestions |-> reqs[r].ai_content,
                               message |-> "Product uploaded successfully"]]]
    /\ UNCHANGED <<nuploads, gen>>

\* The response leaves the server.
Deliver(r) ==
    /\ reqs[r].pc = "done"
    /\ reqs' = [reqs EXCEPT ![r] = Idle]
    /\ UNCHANGED <<db, nuploads, gen>>

\* The AI client never answers this call; nothing bounds the await.
AISilent(r) ==
    /\ reqs[r].pc = "ai"
    /\ reqs' = [reqs EXCEPT ![r].pc = "hung"]
    /\ UNCHANGED <<db, nuploads, gen>>

---------------------------------------------------------------------------
(* generate_product_story *)

StoryText == "Generations of weavers..."

\* A story completion, with the whitespace a model puts around it.
StoryCompletion == <<"\n", StoryText, "\n">>

\* AIContentGenerator.generate_story
generate_story(request, outcome) ==
    IF outcome.kind = "raise"
    THEN "This beautiful " \o request.category
         \o " represents the timeless artistry of Indian craftsmanship, created with love and traditional techniques passed down through generations."
    ELSE Str(strip(outcome.text))

\* The request arrives and awaits generate_story.
StoryArrive(r, product_id, story_request) ==
    /\ Free(r)
    /\ reqs' = [reqs EXCEPT ![r] = [pc |-> "ai", kind |-> "story",
                                    product_id |-> product_id,
                                    request |-> story_request]]
    /\ UNCHANGED <<db, nuploads, gen>>

\* The AI call ends with outcome; update_one is awaited.
StoryAIReturn(r, outcome) ==
    /\ reqs[r].pc = "ai"
    /\ reqs[r].kind = "story"
    /\ reqs' = [reqs EXCEPT ![r] =
            [pc |-> "update", kind |-> "story", product_id |-> reqs[r].product_id,
             request |-> reqs[r].request,
             story |-> generate_story(reqs[r].request, outcome)]]
    /\ UNCHANGED <<db, nuploads, gen>>

\* update_one({"id": product_id, "artisan_id": current_user.id},
\*            {"$set": {"story": story, "ai_generated.story": True}})
StoryUpdated(product_id, story) ==
    IF /\ product_id \in DOMAIN db
       /\ db[product_id].dict["artisan_id"] = PyStr(UserId)
    THEN LET one == SetPath(db[product_id], <<"story">>, PyStr(story)).doc
             two == SetPath(one, <<"ai_generated", "story">>, PyBool(TRUE)).doc
         IN  Stored(product_id, two)
    ELSE db

\* update_one, then the response {"story": story}
StoryUpdate(r) ==
    /\ reqs[r].pc = "update"
    /\ reqs[r].kind = "story"
    /\ db' = StoryUpdated(reqs[r].product_id, reqs[r].story)
    /\ reqs' = [reqs EXCEPT ![r] =
            [pc |-> "done", kind |-> "story", product_id |-> reqs[r].product_id,
             request |-> reqs[r].request,
             response |-> [status |-> 200, story |-> reqs[r].story]]]
    /\ UNCHANGED <<nuploads, gen>>

---------------------------------------------------------------------------
(* translate_product *)

SourceText == "Handwoven silk scarf"

TranslatedText == "Translated scarf"

\* A translation completion, with the whitespace a model puts around it.
TranslationCompletion == <<" ", TranslatedText, "\n">>

\* TranslationService.translate_text
translate_text(request, outcome) ==
    [translated_text |-> IF outcome.kind = "raise" THEN request.text
                         ELSE Str(strip(outcome.text)),
     target_language |-> Str(request.target_language)]

NotFound == [status |-> 404, detail |-> "Product not found"]

\* The request arrives; find_one is awaited and answers.
TranslateLookup(r, product_id, translation_request) ==
    /\ Free(r)
    /\ reqs' = [reqs EXCEPT ![r] =
            IF IsNone(find_one(product_id))
            THEN [pc |-> "done", kind |-> "translate", product_id |-> product_id,
                  request |-> translation_request, response |-> NotFound]
            ELSE [pc |-> "ai", kind |-> "translate", product_id |-> product_id,
                  request |-> translation_request]]
    /\ UNCHANGED <<db, nuploads, gen>>

\* The AI call ends with outcome; update_one is awaited.
TranslateAIReturn(r, outcome) ==
    /\ reqs[r].pc = "ai"
    /\ reqs[r].kind = "translate"
    /\ reqs' = [reqs EXCEPT ![r] =
            [pc |-> "update", kind |-> "translate", product_id |-> reqs[r].product_id,
             request |-> reqs[r].request, ai |-> outcome.kind,
             translation |-> translate_text(reqs[r].request, outcome)]]
    /\ UNCHANGED <<db, nuploads, gen>>

\* f"translations.{lang}.{content_type}"
TranslationPath(translation_request) ==
    <<"translations", ".">> \o translation_request.target_language \o <<".">>
        \o translation_request.content_type

\* update_one({"id": product_id}, {"$set": {path: translated_text}}): the
\* store after it, or a write error.
TranslationUpdated(product_id, translation_request, translated_text) ==
    IF product_id \notin DOMAIN db THEN [ok |-> TRUE, db |-> db]
    ELSE LET set == SetPath(db[product_id],
                            SplitDots(TranslationPath(translation_request)),
                            PyStr(translated_text))
         IN  IF set.ok THEN [ok |-> TRUE, db |-> Stored(product_id, set.doc)]
             ELSE [ok |-> FALSE]

\* update_one, then the response (the translation), or the write error
TranslateUpdate(r) ==
    /\ reqs[r].pc = "update"
    /\ reqs[r].kind = "translate"
    /\ LET upd == TranslationUpdated(reqs[r].product_id, reqs[r].request,
                                     reqs[r].translation.translated_text)
       IN  /\ db' = IF upd.ok THEN upd.db ELSE db
           /\ reqs' = [reqs EXCEPT ![r] =
                   [pc |-> "done", kind |-> "translate",
                    product_id |-> reqs[r].product_id, request |-> reqs[r].request,
                    response |-> IF upd.ok
                                 THEN [status |-> 200,
                                       translation |-> reqs[r].translation]
                                 ELSE ServerError]]
    /\ UNCHANGED <<nuploads, gen>>

---------------------------------------------------------------------------
(* Inputs *)

\* Upload bodies: each optional field absent, empty or zero, or given.
UploadRequests ==
    [title : {PyNone, PyStr(""), PyStr(UserTitle)},
     description : {PyNone, PyStr(""), PyStr(UserDescription)},
     price : {PyNone, PyNum(0), PyNum(UserPrice), PyNum(-5)},
     category : {"pottery"}]

\* What the AI client can do to an upload's call.
UploadOutcomes ==
    {Raised}
    \cup {Answer(c) : c \in
            {FullObjectText,
             Fence \o JsonTag \o <<"\n">> \o FullObjectText \o <<"\n">> \o Fence,
             NullText,
             <<"[", "]">>,
             <<"{", "}">>,
             <<"{", "title=null", ",", "price=0", "}">>,
             <<"{", "price=-40", "}">>,
             <<"{", "title=s", ",", "price=null", "}">>}}

\* The upload of test_ai_content_generation.
TestUpload ==
    [title |-> PyNone,
     description |-> PyStr("Hand-woven silk saree with traditional motifs"),
     price |-> PyNone,
     category |-> "textiles"]

TestOutcomes == {Raised, Answer(FullObjectText)}

StoryRequests == [category : {"textiles"}]

StoryOutcomes == {Raised, Answer(StoryCompletion)}

Translation(lang, content_type) ==
    [text |-> SourceText, target_language |-> lang, content_type |-> content_type]

\* Translate bodies: two languages, three labels, one of them dotted.
TranslationRequests ==
    {Translation(<<"hi">>, <<"title">>),
     Translation(<<"ta">>, <<"description">>),
     Translation(<<"hi">>, <<"description">>),
     Translation(<<"hi">>, <<"title", ".", "alt">>)}

TranslationOutcomes == {Raised, Answer(TranslationCompletion)}

\* The ids a client can name: those of stored products, and one of none.
ProductIds == DOMAIN db \cup {NoSuchId}

---------------------------------------------------------------------------
(* The content-generation harness: one call of generate_product_content *)

GenInputs ==
    {[pc |-> "call", request |-> rq, raised |-> FALSE, parts |-> p] :
        rq \in ContentRequests, p \in Parts}
    \cup {[pc |-> "call", request |-> rq, raised |-> TRUE, parts |-> NoParts] :
            rq \in ContentRequests}

GenOutcome(g) == IF g.raised THEN Raised ELSE Answer(Completion(g.parts))

GenReturn ==
    /\ gen.pc = "call"
    /\ gen' = [pc |-> "returned", request |-> gen.request, raised |-> gen.raised,
               parts |-> gen.parts,
               result |-> generate_product_content(gen.request, GenOutcome(gen))]
    /\ UNCHANGED <<db, reqs, nuploads>>

---------------------------------------------------------------------------
(* Specifications *)

Init ==
    /\ db = EmptyDb
    /\ reqs = [r \in Slots |-> Idle]
    /\ nuploads = 0
    /\ gen = GenOff

\* The server: uploads as the repository's test makes them, stories and
\* translations of the stored products.
Next ==
    \E r \in Slots :
        \/ UploadArrive(r, TestUpload)
        \/ \E outcome \in TestOutcomes : UploadAIReturn(r, outcome)
        \/ UploadInsert(r)
        \/ \E product_id \in ProductIds, request \in StoryRequests :
              StoryArrive(r, product_id, request)
        \/ \E outcome \in StoryOutcomes : StoryAIReturn(r, outcome)
        \/ StoryUpdate(r)
        \/ \E product_id \in ProductIds, request \in TranslationRequests :
              TranslateLookup(r, product_id, request)
        \/ \E outcome \in TranslationOutcomes : TranslateAIReturn(r, outcome)
        \/ TranslateUpdate(r)
        \/ AISilent(r)
        \/ Deliver(r)

Spec == Init /\ [][Next]_vars

\* The upload handler alone, over every upload body and AI outcome.
UploadNext ==
    \E r \in Slots :
        \/ \E upload_data \in UploadRequests : UploadArrive(r, upload_data)
        \/ \E outcome \in UploadOutcomes : UploadAIReturn(r, outcome)
        \/ UploadInsert(r)
        \/ AISilent(r)
        \/ Deliver(r)

UploadSpec == Init /\ [][UploadNext]_vars

\* generate_product_content alone, over every request and completion.
GenInit ==
    /\ db = EmptyDb
    /\ reqs = [r \in Slots |-> Idle]
    /\ nuploads = 0
    /\ gen \in GenInputs

GenNext == GenReturn

GenSpec == GenInit /\ [][GenNext]_vars

---------------------------------------------------------------------------
(* Claims about upload_product, under UploadSpec *)

\* The slots holding an upload that was answered with success.
UploadsAnswered ==
    {r \in Slots : /\ reqs[r].pc = "done"
                   /\ reqs[r].kind = "upload"
                   /\ reqs[r].response.status = 200}

SuggestionKey(f) == IF f = "price" THEN "price_suggestion" ELSE f

MergedFieldNames == {"title", "description", "price"}

\* The stored product of an answered upload.
StoredProduct(r) == db[reqs[r].response.product.dict["id"].num]

Flag(product, f) == product.dict["ai_generated"].dict[f]

\* C1: for every answered upload and each of title, description, price: a
\* non-empty (for price: non-zero) user value is stored as given and flagged
\* false; an absent one is flagged true and the stored value is the AI
\* suggestion's value for the field wherever the suggestion carries one;
\* cultural_context is always flagged true.
C1_UserValueWins ==
    \A r \in UploadsAnswered :
        LET u == reqs[r].upload_data
            a == reqs[r].response.ai_suggestions
            p == StoredProduct(r)
        IN  /\ p = reqs[r].response.product
            /\ Flag(p, "cultural_context") = PyBool(TRUE)
            /\ \A f \in MergedFieldNames :
                  /\ Truthy(u[f]) =>
                        /\ p.dict[f] = u[f]
                        /\ Flag(p, f) = PyBool(FALSE)
                  /\ IsNone(u[f]) =>
                        /\ Flag(p, f) = PyBool(TRUE)
                        /\ SuggestionKey(f) \in DOMAIN a.dict =>
                              p.dict[f] = a.dict[SuggestionKey(f)]

\* An upload with a user price and no title, answered with the AI's title.
C1_Witness ==
    \E r \in UploadsAnswered :
        /\ reqs[r].upload_data.price = PyNum(UserPrice)
        /\ IsNone(reqs[r].upload_data.title)
        /\ StoredProduct(r).dict["title"] = PyStr(AiTitle)
        /\ StoredProduct(r).dict["price"] = PyNum(UserPrice)

\* C2 as stated: a field is flagged AI-generated exactly when the request
\* carried no value for it; an empty string or a price of 0 counts as present.
C2_FlagIffAbsent ==
    \A r \in UploadsAnswered : \A f \in MergedFieldNames :
        Flag(StoredProduct(r), f) = PyBool(IsNone(reqs[r].upload_data[f]))

\* C2 amended: a field is flagged AI-generated exactly when the request
\* carried no value for it, an empty string, or a price of 0; these are the
\* uploads whose stored value is not taken from the request.
C2_FlagIffAbsentOrEmpty ==
    \A r \in UploadsAnswered : \A f \in MergedFieldNames :
        LET u == reqs[r].upload_data
            p == StoredProduct(r)
        IN  /\ Flag(p, f) = PyBool(u[f] \in {PyNone, PyStr(""), PyNum(0)})
            /\ Flag(p, f) = PyBool(FALSE) => p.dict[f] = u[f]

\* An upload with an empty title, stored with the AI's title and flagged.
C2_Witness ==
    \E r \in UploadsAnswered :
        /\ reqs[r].upload_data.title = PyStr("")
        /\ reqs[r].upload_data.price = PyNum(0)
        /\ StoredProduct(r).dict["title"] = PyStr(AiTitle)
        /\ Flag(StoredProduct(r), "title") = PyBool(TRUE)
        /\ Flag(StoredProduct(r), "price") = PyBool(TRUE)

\* C3: every upload that carries a category is answered with success, with
\* the merged product, the AI suggestion and the message, and the product is
\* stored, whatever the AI client returned.
C3_UploadAlwaysSucceeds ==
    \A r \in Slots :
        (reqs[r].pc = "done" /\ reqs[r].kind = "upload") =>
            /\ reqs[r].response.status = 200
            /\ reqs[r].response.message = "Product uploaded successfully"
            /\ IsDict(reqs[r].response.ai_suggestions)
            /\ StoredProduct(r) = reqs[r].response.product

---------------------------------------------------------------------------
(* Claims about generate_product_content, under GenSpec *)

\* The call returned, and the client had answered with a completion.
Answered == gen.pc = "returned" /\ ~gen.raised

\* C4: when the client call fails, or the completion does not parse as JSON
\* once its fence is stripped, the result is the fallback object, which is
\* made of the request's category and description alone.
C4_FallbackExact ==
    (/\ gen.pc = "returned"
     /\ \/ gen.raised
        \/ ~json_loads(StripFence(strip(Completion(gen.parts)))).ok)
    => gen.result =
         PyDict([title |-> PyStr("Handcrafted " \o gen.request.category),
                 description |-> PyStr(gen.request.description),
                 price_suggestion |-> PyNum(500),
                 cultural_context |-> PyStr("A beautiful traditional Indian craft."),
                 keywords |-> PyList(<<PyStr(gen.request.category),
                                       PyStr("handmade"), PyStr("traditional")>>)])

\* A fenced completion that is no JSON, answered with the fallback.
C4_Witness ==
    /\ Answered
    /\ gen.parts.open = Fence
    /\ gen.parts.close = Fence
    /\ gen.parts.body = <<"x">>
    /\ gen.request.description = UserDescription
    /\ gen.result.dict["description"] = PyStr(UserDescription)

\* The completion is a JSON object text between two fences.
FencedObject ==
    /\ Answered
    /\ gen.parts.open = Fence
    /\ gen.parts.close = Fence
    /\ gen.parts.body \in ObjectTexts

\* The result is what the object text alone parses to, and not the fallback.
SameAsUnfenced ==
    /\ gen.result = generate_product_content(gen.request, Answer(gen.parts.body))
    /\ gen.result = json_loads(gen.parts.body).value
    /\ gen.result # FallbackContent(gen.request)

\* C5 as stated: a JSON object between an opening fence with any language
\* tag, or none, and a closing fence parses to the same object as the JSON
\* alone.
C5_FencedAnyTag == FencedObject => SameAsUnfenced

\* C5 amended: the same, when the opening fence carries the tag json or no tag.
C5_FencedJsonTag ==
    (FencedObject /\ gen.parts.tag \in {<<>>, JsonTag}) => SameAsUnfenced

\* A json-tagged fenced object with whitespace around it, parsed.
C5_Witness ==
    /\ FencedObject
    /\ gen.parts.tag = JsonTag
    /\ gen.parts.lead = <<" ">>
    /\ gen.parts.sep = <<"\n">>
    /\ gen.parts.trail = <<"\n">>
    /\ gen.parts.body = FullObjectText
    /\ gen.result.dict["title"] = PyStr(AiTitle)

---------------------------------------------------------------------------
(* Claims about the translate and story handlers, under Spec *)

\* translations[lang][content_type] of a document, or Missing.
Entry(doc, lang, content_type) == GetPath(doc, <<"translations", lang, content_type>>)

\* The (language, content type) pairs that have an entry in a document.
EntryKeys(doc) ==
    LET t == doc.dict["translations"] IN
    {<<l, c>> : l \in DOMAIN t.dict, c \in {"title", "description", "title.alt", "alt"}}

\* This step is slot r's update_one of a translation, and its response.
TranslateStep(r) ==
    /\ reqs[r].pc = "update"
    /\ reqs[r].kind = "translate"
    /\ reqs'[r].pc = "done"

\* This step is slot r's update_one of a story, and its response.
StoryStep(r) ==
    /\ reqs[r].pc = "update"
    /\ reqs[r].kind = "story"
    /\ reqs'[r].pc = "done"

\* C6: a translate operation on an existing product sets
\* translations[L][T] to the translated string and leaves every other entry
\* of the translations map as it was, for every L and T, dotted labels too.
C6_SetsExactlyOneEntry ==
    [][\A r \in Slots :
          TranslateStep(r) =>
              LET id == reqs[r].product_id
                  L == Str(reqs[r].request.target_language)
                  T == Str(reqs[r].request.content_type)
              IN  /\ Entry(db'[id], L, T) = PyStr(reqs[r].translation.translated_text)
                  /\ \A k \in EntryKeys(db[id]) \cup EntryKeys(db'[id]) :
                        k # <<L, T>> => Entry(db'[id], k[1], k[2]) = Entry(db[id], k[1], k[2])
      ]_vars

\* The value stored at the path a translate request writes.
AtPath(doc, request) == GetPath(doc, SplitDots(TranslationPath(request)))

\* C7: whatever the interleaving, a translate or story request's update is
\* made and no other request's translation or story is lost or overwritten
\* by it: a translate step succeeds, sets its own path and leaves the story
\* and the translation stored for every other (language, content type)
\* alone; a story step sets the story and leaves every translation alone.
C7_NoUpdateLost ==
    [][\A r \in Slots :
          /\ TranslateStep(r) =>
                LET id == reqs[r].product_id IN
                /\ reqs'[r].response.status = 200
                /\ AtPath(db'[id], reqs[r].request)
                       = PyStr(reqs[r].translation.translated_text)
                /\ db'[id].dict["story"] = db[id].dict["story"]
                /\ \A other \in TranslationRequests :
                      <<other.target_language, other.content_type>>
                          # <<reqs[r].request.target_language, reqs[r].request.content_type>>
                      => (IsStr(AtPath(db[id], other))
                             => AtPath(db'[id], other) = AtPath(db[id], other))
          /\ (StoryStep(r) /\ reqs[r].product_id \in DOMAIN db) =>
                LET id == reqs[r].product_id IN
                /\ db'[id].dict["story"] = PyStr(reqs[r].story)
                /\ db'[id].dict["translations"] = db[id].dict["translations"]
      ]_vars

\* C8: a story or translate request that names a product the store does not
\* hold is answered with not-found, and no step of it changes the store.
C8_NotFound ==
    [][\A r \in Slots :
          (/\ reqs'[r] # reqs[r]
           /\ reqs'[r].pc # "idle"
           /\ reqs'[r].kind \in {"story", "translate"}
           /\ reqs'[r].product_id \notin DOMAIN db)
          => /\ db' = db
             /\ reqs'[r].pc = "done" => reqs'[r].response = NotFound
      ]_vars

\* C9: when the AI call of a translate request for an existing product
\* failed, the response is the request's text with the target language, no
\* error, and translations[target_language][content_type] is that text.
C9_IdentityFallback ==
    [][\A r \in Slots :
          (TranslateStep(r) /\ reqs[r].ai = "raise") =>
              LET rq == reqs[r].request IN
              /\ reqs'[r].response =
                    [status |-> 200,
                     translation |-> [translated_text |-> rq.text,
                                      target_language |-> Str(rq.target_language)]]
              /\ Entry(db'[reqs[r].product_id], Str(rq.target_language),
                       Str(rq.content_type)) = PyStr(rq.text)
      ]_vars

\* A step that takes slot r's request on towards its response.
Continue(r) ==
    \/ \E outcome \in TestOutcomes : UploadAIReturn(r, outcome)
    \/ UploadInsert(r)
    \/ \E outcome \in StoryOutcomes : StoryAIReturn(r, outcome)
    \/ StoryUpdate(r)
    \/ \E outcome \in TranslationOutcomes : TranslateAIReturn(r, outcome)
    \/ TranslateUpdate(r)

\* C10: every request goes on to a response even when the AI client never
\* answers: a request that has no response yet can always take a step.
C10_EveryRequestResponds ==
    \A r \in Slots : reqs[r].pc \notin {"idle", "done"} => ENABLED Continue(r)

---------------------------------------------------------------------------
(* What the translate handler does keep, for labels without a dot *)

DotFree(request) ==
    \A i \in 1..Len(request.content_type) : request.content_type[i] # "."

\* A translate step with an undotted label succeeds, sets exactly its own
\* entry, and changes no other entry, no undotted request's stored
\* translation and not the story; after a failed AI call the entry and the
\* response carry the request's text.
DotFreeTranslateKeeps ==
    [][\A r \in Slots :
          (TranslateStep(r) /\ DotFree(reqs[r].request)) =>
              LET id == reqs[r].product_id
                  rq == reqs[r].request
                  L == Str(rq.target_language)
                  T == Str(rq.content_type)
              IN  /\ reqs'[r].response.status = 200
                  /\ Entry(db'[id], L, T) = PyStr(reqs[r].translation.translated_text)
                  /\ reqs[r].ai = "raise" =>
                        /\ Entry(db'[id], L, T) = PyStr(rq.text)
                        /\ reqs'[r].response.translation
                               = [translated_text |-> rq.text, target_language |-> L]
                  /\ \A k \in EntryKeys(db[id]) \cup EntryKeys(db'[id]) :
                        k # <<L, T>> => Entry(db'[id], k[1], k[2]) = Entry(db[id], k[1], k[2])
                  /\ db'[id].dict["story"] = db[id].dict["story"]
      ]_vars

\* The three entries (hi, title), (ta, description), (hi, description) are
\* all present.
ThreeEntriesStored ==
    \E id \in DOMAIN db :
        /\ IsStr(Entry(db[id], "hi", "title"))
        /\ IsStr(Entry(db[id], "ta", "description"))
        /\ IsStr(Entry(db[id], "hi", "description"))

---------------------------------------------------------------------------
(* Claims about the stored products and the suggestion *)

\* C11: every stored product has a price above zero, whatever price the
\* upload carried and whatever price the AI suggested.
C11_PricePositive ==
    \A id \in DOMAIN db : db[id].dict["price"].num > 0

FixedFields == {"id", "artisan_id", "title", "description", "price", "category"}

\* C12: once a product is stored, no step removes a stored translation or
\* the story; a story step leaves the translations as they are, a translate
\* step leaves the story as it is, and no step changes the product's id,
\* artisan_id, title, description, price or category.
C12_OnlyAdds ==
    [][\A id \in DOMAIN db :
          /\ \A rq \in TranslationRequests :
                IsStr(AtPath(db[id], rq)) => IsStr(AtPath(db'[id], rq))
          /\ IsStr(db[id].dict["story"]) => IsStr(db'[id].dict["story"])
          /\ \A f \in FixedFields : db'[id].dict[f] = db[id].dict[f]
          /\ \A r \in Slots :
                /\ StoryStep(r) => db'[id].dict["translations"] = db[id].dict["translations"]
                /\ TranslateStep(r) => db'[id].dict["story"] = db[id].dict["story"]
      ]_vars

\* The rest of C12 as the code keeps it: no step removes the stored
\* translation of an undotted request or the story, a story step leaves the
\* translations alone, a translate step leaves the story alone, and the six
\* fields never change.
DotFreeOnlyAdds ==
    [][\A id \in DOMAIN db :
          /\ \A rq \in {q \in TranslationRequests : DotFree(q)} :
                IsStr(AtPath(db[id], rq)) => IsStr(AtPath(db'[id], rq))
          /\ IsStr(db[id].dict["story"]) => IsStr(db'[id].dict["story"])
          /\ \A f \in FixedFields : db'[id].dict[f] = db[id].dict[f]
          /\ \A r \in Slots :
                /\ StoryStep(r) => db'[id].dict["translations"] = db[id].dict["translations"]
                /\ TranslateStep(r) => db'[id].dict["story"] = db[id].dict["story"]
      ]_vars

SuggestionKeys ==
    {"title", "description", "price_suggestion", "cultural_context", "keywords"}

\* A suggestion as the prompt asks for it: an object with the five keys.
SchemaValid(v) == IsDict(v) /\ SuggestionKeys \subseteq DOMAIN v.dict

\* C13: the result of generate_product_content is never null or absent: it
\* is an object with the five keys, and a completion that parses as JSON but
\* is no such object yields the fallback of an unreachable AI service.
C13_NeverNull ==
    gen.pc = "returned" =>
        /\ SchemaValid(gen.result)
        /\ (/\ ~gen.raised
            /\ LET parsed == json_loads(StripFence(strip(Completion(gen.parts))))
               IN  parsed.ok /\ ~SchemaValid(parsed.value))
           => gen.result = generate_product_content(gen.request, Raised)

====
